---- MODULE Spec2Model ----
(***************************************************************************)
(* Model of wlan_settings.h of LedMatrixEffectBox: the build-time WLAN /   *)
(* OTA settings, and the two uses the firmware makes of them: statements   *)
(* that name a setting, and the connection-attempt polling loop that is    *)
(* bounded by MAX_NUM_OF_WIFI_SSID_TRIAL_TIMEOUT_IN_500MS.                 *)
(***************************************************************************)
EXTENDS Integers, Sequences, FiniteSets

VARIABLES
    config,      \* the value every setting currently has, by name
    firstRead,   \* for the settings read so far: the value the first read gave
    lastRead,    \* for the settings read so far: the value the latest read gave
    reread,      \* the settings read more than once
    otaEnabled,  \* whether the build uses the OTA / WiFi feature
    pc,          \* position of the connection attempt
    trial,       \* polls made by the current connection attempt
    waitedMs     \* time the current connection attempt has waited

vars == <<config, firstRead, lastRead, reread, otaEnabled, pc, trial, waitedMs>>

----------------------------------------------------------------------------
(* The settings, wlan_settings.h lines 3-12.                               *)

OTA_PASSWORD == "PROVIDE YOUR PASSWORD FOR OTA UPDATE"

ROUTER_SSID_empty == ""
ROUTER_SSID == "SSID OF YOUR ROUTER"

ROUTER_PASSWD == "PASSWORD OF YOUR ROUTER"

PRODUCT_NAME == "LedMatrixEffectBox_"

MAX_NUM_OF_WIFI_SSID_TRIAL_TIMEOUT_IN_500MS_zero == 0
MAX_NUM_OF_WIFI_SSID_TRIAL_TIMEOUT_IN_500MS == 10

\* The unit of the trial count, from the macro's name (..._IN_500MS).
TRIAL_PERIOD_MS == 500

\* The total wait annotated on the macro: "// 6 sec".
ANNOTATED_TOTAL_WAIT_SEC == 6

\* The IP-like settings, each as the argument list of its IPAddress(...)
\* constructor call, first octet first.
G_ownStaticIP_asGateway == <<192, 168, 8, 1>>
G_ownStaticIP == <<192, 168, 8, 205>>

G_gatewayIP_octetTooBig == <<192, 168, 8, 256>>
G_gatewayIP_otherNet == <<192, 169, 8, 1>>
G_gatewayIP == <<192, 168, 8, 1>>

G_maskIP_reversed == <<0, 0, 255, 255>>
G_maskIP == <<255, 255, 0, 0>>

\* The names the header defines.
StringNames == {"OTA_PASSWORD", "ROUTER_SSID", "ROUTER_PASSWD", "PRODUCT_NAME"}
CountNames == {"MAX_NUM_OF_WIFI_SSID_TRIAL_TIMEOUT_IN_500MS"}
IPNames == {"G_ownStaticIP", "G_gatewayIP", "G_maskIP"}
Names == StringNames \cup CountNames \cup IPNames

\* The names defined with #define: each use expands to a literal.
Macros == StringNames \cup CountNames

\* The objects declared with the const qualifier.
ConstQualified_dropped == {}
ConstQualified == {"G_ownStaticIP", "G_gatewayIP", "G_maskIP"}

\* A name a statement of the program can store to: an object, not a literal,
\* and not const.
Assignable(n) == n \notin Macros /\ n \notin ConstQualified

\* The value each name has once the header is compiled and the globals are
\* constructed.
Settings ==
    [n \in Names |->
        CASE n = "OTA_PASSWORD" -> OTA_PASSWORD
          [] n = "ROUTER_SSID" -> ROUTER_SSID
          [] n = "ROUTER_PASSWD" -> ROUTER_PASSWD
          [] n = "PRODUCT_NAME" -> PRODUCT_NAME
          [] n = "MAX_NUM_OF_WIFI_SSID_TRIAL_TIMEOUT_IN_500MS" ->
                 MAX_NUM_OF_WIFI_SSID_TRIAL_TIMEOUT_IN_500MS
          [] n = "G_ownStaticIP" -> G_ownStaticIP
          [] n = "G_gatewayIP" -> G_gatewayIP
          [] n = "G_maskIP" -> G_maskIP]

----------------------------------------------------------------------------
(* The users of the settings.                                              *)

\* A value of the setting's type other than the configured one.
OtherValue(n) ==
    IF n \in IPNames THEN <<0, 0, 0, 0>>
    ELSE IF n \in CountNames THEN 0
    ELSE ""

\* What a statement naming n can leave in n: the value it had, or, when n
\* can be stored to, another value.
StoreCandidates(n) ==
    IF Assignable(n) THEN {config[n], OtherValue(n)} ELSE {config[n]}

Init ==
    /\ config = Settings
    /\ firstRead = [n \in {} |-> 0]
    /\ lastRead = [n \in {} |-> 0]
    /\ reread = {}
    /\ otaEnabled \in BOOLEAN
    /\ pc = "idle"
    /\ trial = 0
    /\ waitedMs = 0

\* A statement of the firmware that names setting n: it reads the value, and
\* stores to n only if n can be stored to.
Access(n) ==
    /\ firstRead' =
           IF n \in DOMAIN firstRead THEN firstRead
           ELSE [m \in DOMAIN firstRead \cup {n} |->
                    IF m = n THEN config[n] ELSE firstRead[m]]
    /\ lastRead' =
           [m \in DOMAIN lastRead \cup {n} |->
               IF m = n THEN config[n] ELSE lastRead[m]]
    /\ reread' = IF n \in DOMAIN firstRead THEN reread \cup {n} ELSE reread
    /\ \E v \in StoreCandidates(n) : config' = [config EXCEPT ![n] = v]
    /\ UNCHANGED <<otaEnabled, pc, trial, waitedMs>>

\* The connection attempt starts: no poll made, nothing waited.
BeginConnect ==
    /\ otaEnabled
    /\ pc \in {"idle", "connected", "gaveup"}
    /\ pc' = "polling"
    /\ trial' = 0
    /\ waitedMs' = 0
    /\ UNCHANGED <<config, firstRead, lastRead, reread, otaEnabled>>

\* One poll of the attempt, allowed while the trial count is below the bound:
\* the link is up, or the loop waits one period and counts the trial.
Poll ==
    /\ pc = "polling"
    /\ trial < config["MAX_NUM_OF_WIFI_SSID_TRIAL_TIMEOUT_IN_500MS"]
    /\ trial' = trial + 1
    /\ \/ /\ pc' = "connected"
          /\ waitedMs' = waitedMs
       \/ /\ pc' = "polling"
          /\ waitedMs' = waitedMs + TRIAL_PERIOD_MS
    /\ UNCHANGED <<config, firstRead, lastRead, reread, otaEnabled>>

\* The trial count has reached the bound: the attempt gives up.
GiveUp ==
    /\ pc = "polling"
    /\ trial >= config["MAX_NUM_OF_WIFI_SSID_TRIAL_TIMEOUT_IN_500MS"]
    /\ pc' = "gaveup"
    /\ UNCHANGED <<config, firstRead, lastRead, reread, otaEnabled, trial, waitedMs>>

Next ==
    \/ \E n \in Names : Access(n)
    \/ BeginConnect
    \/ Poll
    \/ GiveUp

Spec == Init /\ [][Next]_vars

----------------------------------------------------------------------------
(* Arithmetic on octets and 32-bit addresses used by the properties.       *)

RECURSIVE Pow2(_)
Pow2(k) == IF k = 0 THEN 1 ELSE 2 * Pow2(k - 1)

RECURSIVE AndBits(_, _, _)
AndBits(a, b, k) ==
    IF k = 0 THEN 0
    ELSE (a % 2) * (b % 2) + 2 * AndBits(a \div 2, b \div 2, k - 1)

\* Bitwise AND of two octets.
OctetAnd(a, b) == AndBits(a, b, 8)

\* Bit j of an address read as a 32-bit value, most significant octet first:
\* bit 1 is the most significant bit, bit 32 the least significant.
AddrBit(ip, j) ==
    LET octet == ip[((j - 1) \div 8) + 1]
        shift == 7 - ((j - 1) % 8)
    IN  (octet \div Pow2(shift)) % 2

\* The host positions of a mask: where the mask has a zero bit.
HostPositions(mask) == {j \in 1..32 : AddrBit(mask, j) = 0}

Finished == pc \in {"connected", "gaveup"}

----------------------------------------------------------------------------
(* The properties.                                                         *)

\* C1: the total connection wait, the trial count times 500 ms, equals the
\* total wait annotated on the constant (6 seconds).
C1_TotalWaitIsAnnotated ==
    config["MAX_NUM_OF_WIFI_SSID_TRIAL_TIMEOUT_IN_500MS"] * TRIAL_PERIOD_MS
        = ANNOTATED_TOTAL_WAIT_SEC * 1000

\* C2: each of the three IP-like settings is built from exactly four
\* integers, each in 0..255.
C2_FourOctets ==
    \A n \in IPNames :
        /\ Len(config[n]) = 4
        /\ \A i \in 1..Len(config[n]) : config[n][i] \in 0..255

C2_Witness ==
    /\ IPNames \subseteq DOMAIN lastRead
    /\ lastRead["G_ownStaticIP"][4] = 205
    /\ lastRead["G_maskIP"][1] = 255
    /\ lastRead["G_gatewayIP"][4] = 1

\* C3: every setting keeps its build-time value in every reachable state, so
\* the first read of a setting and any later read of it, whatever was read in
\* between, give the same value.
C3_NeverChanges ==
    /\ config = Settings
    /\ DOMAIN lastRead = DOMAIN firstRead
    /\ \A n \in DOMAIN firstRead :
           /\ lastRead[n] = firstRead[n]
           /\ firstRead[n] = Settings[n]

C3_Witness ==
    /\ reread = Names
    /\ lastRead = firstRead
    /\ pc = "gaveup"

\* C4: the trial count is strictly positive, so a connection attempt bounded
\* by it that has ended made at least one poll, and no attempt makes more
\* polls than the count.
C4_PositiveBound ==
    /\ config["MAX_NUM_OF_WIFI_SSID_TRIAL_TIMEOUT_IN_500MS"] \in Nat \ {0}
    /\ trial \in 0..config["MAX_NUM_OF_WIFI_SSID_TRIAL_TIMEOUT_IN_500MS"]
    /\ Finished => trial >= 1
    /\ pc = "gaveup" =>
           trial = config["MAX_NUM_OF_WIFI_SSID_TRIAL_TIMEOUT_IN_500MS"]

C4_Witness ==
    /\ pc = "gaveup"
    /\ trial = 10
    /\ waitedMs = 5000

\* C5: OTA_PASSWORD, ROUTER_SSID, ROUTER_PASSWD and PRODUCT_NAME each have
\* length greater than zero whenever the OTA / WiFi feature is enabled.
C5_StringsNonEmpty ==
    otaEnabled => \A n \in StringNames : Len(config[n]) > 0

C5_Witness ==
    /\ otaEnabled
    /\ StringNames \subseteq DOMAIN lastRead
    /\ \A n \in StringNames : Len(lastRead[n]) > 0
    /\ pc = "polling"

\* C6: the static address and the gateway address are in the same subnet
\* under the mask: at each octet position the two addresses agree once ANDed
\* with the mask's octet.
C6_SameSubnet ==
    \A i \in 1..4 :
        OctetAnd(config["G_ownStaticIP"][i], config["G_maskIP"][i])
            = OctetAnd(config["G_gatewayIP"][i], config["G_maskIP"][i])

C6_Witness ==
    /\ IPNames \subseteq DOMAIN lastRead
    /\ lastRead["G_ownStaticIP"] # lastRead["G_gatewayIP"]
    /\ OctetAnd(lastRead["G_ownStaticIP"][2], lastRead["G_maskIP"][2]) = 168
    /\ OctetAnd(lastRead["G_gatewayIP"][4], lastRead["G_maskIP"][4]) = 0

\* C7: the mask, as a 32-bit value with the most significant octet first, is
\* a run of one bits followed only by zero bits, and is neither all zeros nor
\* all ones.
C7_MaskWellFormed ==
    LET m == config["G_maskIP"] IN
    /\ \A j \in 1..31 :
           AddrBit(m, j) = 0 => AddrBit(m, j + 1) = 0
    /\ \E j \in 1..32 : AddrBit(m, j) = 1
    /\ \E j \in 1..32 : AddrBit(m, j) = 0

C7_Witness ==
    /\ "G_maskIP" \in DOMAIN lastRead
    /\ \A j \in 1..16 : AddrBit(lastRead["G_maskIP"], j) = 1
    /\ \A j \in 17..32 : AddrBit(lastRead["G_maskIP"], j) = 0

\* C8: the static address is a usable host address: it is not the gateway's
\* address, and its host part under the mask is neither all zero bits nor all
\* one bits.
C8_UsableHost ==
    LET ip == config["G_ownStaticIP"]
        host == HostPositions(config["G_maskIP"])
    IN  /\ ip # config["G_gatewayIP"]
        /\ \E j \in host : AddrBit(ip, j) = 1
        /\ \E j \in host : AddrBit(ip, j) = 0

C8_Witness ==
    /\ {"G_ownStaticIP", "G_maskIP"} \subseteq DOMAIN lastRead
    /\ HostPositions(lastRead["G_maskIP"]) = 17..32
    /\ AddrBit(lastRead["G_ownStaticIP"], 32) = 1
    /\ AddrBit(lastRead["G_ownStaticIP"], 17) = 0
    /\ pc = "connected"

====
